---- MODULE Spec2Model ----
(***************************************************************************)
(* The four dashboard scripts black.py, black2.py, black3.py and black4.py *)
(* as one state machine.  A behaviour is one server process running one of *)
(* the scripts: the script is re-executed from its first line on every     *)
(* widget interaction, its variables are rebuilt on every run, and the     *)
(* only state a run inherits from the previous one is numpy's global       *)
(* generator.                                                              *)
(*                                                                         *)
(* Units.  Ratings are integers in thousandths (4600 is 4.6), the standard *)
(* normal deviate of a draw is in hundredths (13 is 0.13), a uniform draw  *)
(* in [0,1) is in thousandths (999 is 0.999).  Strings are sequences of    *)
(* one-character strings, so that split, strip, title and the              *)
(* case-insensitive substring search are computed, not assumed.            *)
(***************************************************************************)
EXTENDS Integers, Sequences, FiniteSets, TLC

(***************************************************************************)
(* Bounds of the model.  SampleSize stands for the 60 rows sampled per     *)
(* user, SliderMin for the slider's lower end 100; the slider's upper end  *)
(* 500 is SliderMin + SliderSpan.  The model runs the first two of the     *)
(* scripts' five users (see users below).  SimilarMax stands for the 10     *)
(* rows the movie-based recommendation shows at most.                      *)
(***************************************************************************)
SampleSize == 2
SliderMin == 3
SliderSpan == 1
SimilarMax == 2

SliderMax == SliderMin + SliderSpan

(***************************************************************************)
(* Characters and strings                                                  *)
(***************************************************************************)
LowerAlpha == <<"a","c","d","e","h","i","l","m","n","o","p","r","s","t","u","v","w","y">>
UpperAlpha == <<"A","C","D","E","H","I","L","M","N","O","P","R","S","T","U","V","W","Y">>

IsUpper(c) == \E i \in 1..Len(UpperAlpha) : UpperAlpha[i] = c
IsLower(c) == \E i \in 1..Len(LowerAlpha) : LowerAlpha[i] = c
IsLetter(c) == IsUpper(c) \/ IsLower(c)

ToLower(c) ==
    IF IsUpper(c)
    THEN LowerAlpha[CHOOSE i \in 1..Len(UpperAlpha) : UpperAlpha[i] = c]
    ELSE c

ToUpper(c) ==
    IF IsLower(c)
    THEN UpperAlpha[CHOOSE i \in 1..Len(LowerAlpha) : LowerAlpha[i] = c]
    ELSE c

\* str.lower()
Lower(s) == [i \in 1..Len(s) |-> ToLower(s[i])]

\* str.title(): a letter that follows a non-letter (or starts the string) is
\* upper-cased, every other letter is lower-cased.
Title(s) ==
    [i \in 1..Len(s) |->
        IF i = 1 \/ ~IsLetter(s[i - 1]) THEN ToUpper(s[i]) ELSE ToLower(s[i])]

\* str.strip(): leading and trailing blanks removed.
RECURSIVE LStrip(_)
LStrip(s) == IF s # <<>> /\ Head(s) = " " THEN LStrip(Tail(s)) ELSE s

RECURSIVE RStrip(_)
RStrip(s) ==
    IF s # <<>> /\ s[Len(s)] = " " THEN RStrip(SubSeq(s, 1, Len(s) - 1)) ELSE s

Strip(s) == RStrip(LStrip(s))

\* Index of the first occurrence of sep in s, 0 when there is none.
FirstMatch(s, sep) ==
    LET hits == {i \in 1..(Len(s) - Len(sep) + 1) :
                    SubSeq(s, i, i + Len(sep) - 1) = sep}
    IN  IF hits = {} THEN 0 ELSE CHOOSE i \in hits : \A j \in hits : i <= j

\* str.split(sep) for a non-empty separator.
RECURSIVE Split(_, _)
Split(s, sep) ==
    LET i == FirstMatch(s, sep)
    IN  IF i = 0
        THEN <<s>>
        ELSE <<SubSeq(s, 1, i - 1)>> \o Split(SubSeq(s, i + Len(sep), Len(s)), sep)

\* Series.str.contains(pat, case=False) for a literal pattern.
Contains(s, pat) == FirstMatch(Lower(s), Lower(pat)) # 0

\* Series.str.contains("a|b", case=False): the alternation of literals.
ContainsAny(s, pats) == \E k \in 1..Len(pats) : Contains(s, pats[k])

\* [g.strip() for g in x]
StripAll(ss) == [i \in 1..Len(ss) |-> Strip(ss[i])]

\* [g.strip().title() for g in x]
StripTitleAll(ss) == [i \in 1..Len(ss) |-> Title(Strip(ss[i]))]

Range(s) == {s[i] : i \in 1..Len(s)}

RECURSIVE Flatten(_)
Flatten(ss) == IF ss = <<>> THEN <<>> ELSE Head(ss) \o Flatten(Tail(ss))

\* DataFrame.head(n)
HeadN(s, n) == SubSeq(s, 1, IF n < Len(s) THEN n ELSE Len(s))

(***************************************************************************)
(* The catalog file asta.csv                                               *)
(***************************************************************************)
Num(v) == [kind |-> "num", val |-> v]
TextCell == [kind |-> "text", val |-> 0]
NaCell == [kind |-> "na", val |-> 0]

Row(id, name, genre, rating) ==
    [MovieID |-> id, MovieName |-> name, Genre |-> genre, BaseRating |-> rating]

Drama == <<"D","r","a","m","a">>
Action == <<"A","c","t","i","o","n">>
Adventure == <<"A","d","v","e","n","t","u","r","e">>
Comedy == <<"C","o","m","e","d","y">>
Thriller == <<"T","h","r","i","l","l","e","r">>
Mystery == <<"M","y","s","t","e","r","y">>
Romance == <<"R","o","m","a","n","c","e">>

CommaSpace == <<",", " ">>
Comma == <<",">>

R1 == Row(1, <<"U","p">>, Drama, Num(4600))
R2 == Row(2, <<"H","e","a","t">>, Action \o CommaSpace \o Drama, Num(1200))
R3 == Row(3, <<"R","a","n">>, Action \o Comma \o Drama, Num(8500))
R4 == Row(4, <<"H","e","r">>,
          Lower(Drama) \o CommaSpace \o Lower(Action) \o CommaSpace \o Lower(Comedy),
          Num(4500))
R5 == Row(5, <<"S","a","w">>,
          Comedy \o CommaSpace \o Drama \o CommaSpace \o Action, Num(3900))
\* A row whose genre cell is empty, and one whose rating is not a number.
R6 == Row(6, <<"I","t">>, <<>>, Num(4000))
R7 == Row(7, <<"U","s">>, Drama, TextCell)
R8 == Row(8, <<"A","n","t">>, Action \o CommaSpace \o Drama, Num(4599))
R9 == Row(9, <<"C","a","r","s">>, Drama \o CommaSpace \o Romance, Num(3000))
R10 == Row(10, <<"T","e","d">>, Comedy \o CommaSpace \o Drama, Num(4200))

\* header "canonical": the columns are MovieID, MovieName, Genre, BaseRating;
\* header "raw": they are "Unnamed: 0", "Name of movie", Genre, "Movie Rating";
\* header "other": a required column is missing under either naming.
Files ==
    { [header |-> "canonical", rows |-> <<R1, R2, R8, R3, R4, R5>>],
      [header |-> "raw", rows |-> <<R3, R6, R5, R1, R7, R2, R4>>],
      [header |-> "canonical", rows |-> <<R2, R7>>],
      [header |-> "canonical", rows |-> <<R1, R9, R10, R5>>],
      [header |-> "other", rows |-> <<R1>>] }

Variants == {"black", "black2", "black3", "black4"}

(***************************************************************************)
(* numpy's generator.  Its algorithm is not part of the repository: what   *)
(* the scripts rely on is that after seed(s) the k-th draw is a function   *)
(* of s and k.  The stream of the script's seed is the sequence tape,      *)
(* unknown until a draw first reads it and fixed from then on.  A word of  *)
(* the stream carries what one loop iteration's calls read from it:        *)
(*   z  the standard normal deviate of normal(),                           *)
(*   q  the uniform draw behind randint(4, 6),                             *)
(*   w  the uniform draw behind randint(60, 180),                          *)
(*   d  the uniform draw behind choice(dates),                             *)
(*   s  the integer that DataFrame.sample turns into a selection.          *)
(***************************************************************************)
RawWords ==
    { [z |-> -300, q |-> 0, w |-> 0, d |-> 0, s |-> 2],
      [z |-> 13, q |-> 999, w |-> 999, d |-> 999, s |-> 7] }

Unseeded == [seeded |-> FALSE, pos |-> 0]

\* The outcomes of one draw in generator state g with stream t: the word
\* read and the stream as known afterwards.
Draws(g, t) ==
    IF ~g.seeded
    THEN {[word |-> x, tape |-> t] : x \in RawWords}
    ELSE IF g.pos < Len(t)
         THEN {[word |-> t[g.pos + 1], tape |-> t]}
         ELSE {[word |-> x, tape |-> Append(t, x)] : x \in RawWords}

Advance(g) == IF g.seeded THEN [g EXCEPT !.pos = @ + 1] ELSE g

\* RandomState(42): a fresh generator on the stream of seed 42, at its start.
FreshState == [seeded |-> TRUE, pos |-> 0]

\* np.random.normal(mu, sigma) for the deviate z
Normal(mu, sigma, z) == mu + (sigma * z) \div 100

\* randint with the upper end taken as inclusive
RandIntInclusive(lo, hi, u) == lo + (u * (hi - lo + 1)) \div 1000

\* np.random.randint(lo, hi) for the uniform draw u: hi is exclusive
RandInt(lo, hi, u) == lo + (u * (hi - lo)) \div 1000

\* np.random.choice(a) for the uniform draw u
Choice(a, u) == a[1 + (u * Len(a)) \div 1000]

\* truncation to one decimal instead of rounding
Round1Floor(x) == (x \div 100) * 100

\* round(x, 1): to the nearest tenth, an exact tie to the even tenth
Round1(x) ==
    LET q == x \div 100
        r == x % 100
    IN  IF r < 50 THEN q * 100
        ELSE IF r > 50 THEN (q + 1) * 100
        ELSE IF q % 2 = 0 THEN q * 100 ELSE (q + 1) * 100

\* a clip that forgets its lower end
ClipUpperOnly(x, lo, hi) == IF x > hi THEN hi ELSE x

\* Series.clip(lo, hi) / np.clip(x, lo, hi) on one value
Clip(x, lo, hi) == IF x < lo THEN lo ELSE IF x > hi THEN hi ELSE x

RemoveAt(s, j) == SubSeq(s, 1, j - 1) \o SubSeq(s, j + 1, Len(s))

\* k of the elements of idx with replacement
RECURSIVE PickWithReplacement(_, _, _)
PickWithReplacement(idx, k, s) ==
    IF k = 0 THEN <<>>
    ELSE LET n == Len(idx)
             j == (s % n) + 1
         IN  <<idx[j]>> \o PickWithReplacement(idx, k - 1, s \div n)

\* k of the elements of idx without replacement, chosen by the digits of s
RECURSIVE Pick(_, _, _)
Pick(idx, k, s) ==
    IF k = 0 THEN <<>>
    ELSE LET n == Len(idx)
             j == (s % n) + 1
         IN  <<idx[j]>> \o Pick(RemoveAt(idx, j), k - 1, s \div n)

\* DataFrame.sample(k, replace=False) of rows, k <= len(rows)
Sample(rows, k, s) ==
    LET sel == Pick([i \in 1..Len(rows) |-> i], k, s)
    IN  [i \in 1..k |-> rows[sel[i]]]

\* a date range that runs one month too far, to 2024-07-31
MonthDaysToJuly == <<31, 29, 31, 30, 31, 30, 31>>

\* pd.date_range("2024-01-01", "2024-06-30")
MonthDays == <<31, 29, 31, 30, 31, 30>>

RECURSIVE DaysOf(_)
DaysOf(m) ==
    IF m = 0 THEN <<>>
    ELSE DaysOf(m - 1) \o [d \in 1..MonthDays[m] |-> [year |-> 2024, month |-> m, day |-> d]]

dates == DaysOf(Len(MonthDays))

(***************************************************************************)
(* Users and their preference profiles                                     *)
(***************************************************************************)
AllUsers == <<"U01", "U02", "U03", "U04", "U05">>

\* The users the synthesis loop runs over: the first two of the five.
users == <<"U01", "U02">>

NumUsers == Len(users)

user_preferences(v) ==
    IF v = "black3"
    THEN [u \in Range(AllUsers) |->
            CASE u = "U01" -> <<Drama>>
              [] u = "U02" -> <<Action, Adventure>>
              [] u = "U03" -> <<Comedy>>
              [] u = "U04" -> <<Thriller, Mystery>>
              [] OTHER -> <<Romance>>]
    ELSE [u \in Range(AllUsers) |->
            CASE u = "U01" -> <<Drama>>
              [] u = "U02" -> <<Action>>
              [] u = "U03" -> <<Comedy>>
              [] u = "U04" -> <<Thriller>>
              [] OTHER -> <<Romance>>]

\* The standard deviation of the rating noise, in thousandths.
Sigma(v) == IF v = "black" THEN 500 ELSE 400

(***************************************************************************)
(* Loading                                                                 *)
(***************************************************************************)
IsNa(r) ==
    \/ r.MovieName = <<>>
    \/ r.Genre = <<>>
    \/ r.BaseRating.kind = "na"

\* DataFrame.dropna()
DropNa(rows) == SelectSeq(rows, LAMBDA r : ~IsNa(r))

\* pd.to_numeric(errors="coerce") on the BaseRating column
ToNumeric(rows) ==
    [i \in 1..Len(rows) |->
        IF rows[i].BaseRating.kind = "num"
        THEN rows[i]
        ELSE [rows[i] EXCEPT !.BaseRating = NaCell]]

\* The catalog as the script holds it after its loading section.
Cleaned(v, rows) ==
    IF v = "black" THEN DropNa(rows) ELSE DropNa(ToNumeric(DropNa(rows)))

\* What the loading section ends in: "ok", "stop" (st.error + st.stop) or
\* "raise" (an uncaught KeyError on a missing column).
LoadOutcome(v, header) ==
    CASE v = "black" -> IF header = "canonical" THEN "ok" ELSE "raise"
      [] v = "black2" -> IF header = "other" THEN "stop" ELSE "ok"
      [] OTHER -> IF header = "other" THEN "raise" ELSE "ok"

(***************************************************************************)
(* Genre lists                                                             *)
(***************************************************************************)
\* The genres one interaction record counts for in the genre aggregation.
GenreList(v, g) ==
    CASE v \in {"black", "black2"} -> <<g>>
      [] v = "black3" -> Split(g, CommaSpace)
      [] OTHER -> StripTitleAll(Split(g, Comma))

\* The primary genre the movie-based recommendation searches for.
PrimaryGenre(v, g) ==
    IF v = "black3" THEN Head(Split(g, Comma)) ELSE Strip(Head(Split(g, Comma)))

\* Series.explode() of the genre lists of the rows of table t
Exploded(v, t) == Flatten([i \in 1..Len(t) |-> GenreList(v, t[i].Genre)])

\* Series.value_counts()
ValueCounts(xs) ==
    [g \in Range(xs) |-> Cardinality({i \in 1..Len(xs) : xs[i] = g})]

\* The keys of the largest count: idxmax() returns one of them, which one
\* among equal counts is decided inside pandas.
ArgMax(f) == {g \in DOMAIN f : \A h \in DOMAIN f : f[h] <= f[g]}

\* The position at which key g first occurs in xs.
FirstPos(xs, g) == CHOOSE i \in 1..Len(xs) : xs[i] = g /\ \A j \in 1..(i - 1) : xs[j] # g

\* How value_counts() orders keys of equal count is decided inside pandas: by
\* one rule for all calls of a run.  The rules here put the key seen first,
\* or the key seen last, on top.
TieRules == {"first", "last"}

\* Series.value_counts().idxmax() under tie rule
IdxMax(rule, xs) ==
    LET top == ArgMax(ValueCounts(xs))
    IN  CHOOSE g \in top :
            \A h \in top :
                IF rule = "first"
                THEN FirstPos(xs, g) <= FirstPos(xs, h)
                ELSE FirstPos(xs, g) >= FirstPos(xs, h)

\* The FavoriteGenre cell of the user-behaviour table for the rows of one user.
FavoriteGenre(v, rule, user_rows) == IdxMax(rule, Exploded(v, user_rows))

(***************************************************************************)
(* State                                                                   *)
(***************************************************************************)
VARIABLES
    variant,          \* which script this process runs
    file,             \* the content of asta.csv
    tape,             \* the generator's stream for the script's seed, as far as read
    rng,              \* numpy's global generator: seeded or not, and its position
    pc,               \* where the current run of the script is
    fileExists,       \* what os.path.exists(FILE_NAME) returned in this run
    catalogRead,      \* pd.read_csv was called in this run
    error,            \* the st.error message of this run, <<>> when none
    movies,           \* the script's variable movies
    num_movies,       \* the slider's value, 0 before the slider is reached
    ui,               \* index in users of the user the synthesis loop is at
    sample_movies,    \* rows of the current user still to be iterated
    records,          \* the script's list records
    drawn,            \* for each record, the generator word its draws read
    df,               \* the interaction table
    genre_count,      \* the genre popularity counts
    tie_rule,         \* how this run's idxmax decides between equal counts
    user_behaviour,   \* the FavoriteGenre column of the user-behaviour table
    selected_user,    \* the user chosen in the recommendation selectbox
    fav_genre,        \* the favorite genre the recommendation uses
    recommendations,  \* the user-based recommendation list
    movie_input,      \* the text typed in the movie-based recommendation
    main_genre,       \* the primary genre of the query movie
    query,            \* the query movie, <<>> when none was found
    similar,          \* the movie-based recommendation list
    firstTable,       \* for each slider value, the table of the first run that built one
    replayed          \* the table of this run is not the first for its slider value

process == <<variant, file, tape, rng, firstTable>>

run == <<pc, fileExists, catalogRead, error, movies, num_movies, ui, sample_movies,
         records, drawn, df, genre_count, tie_rule, user_behaviour, selected_user,
         fav_genre, recommendations, movie_input, main_genre, query, similar, replayed>>

vars == <<process, run>>

NoUser == "none"
NoRule == "none"
NoGenre == <<>>

\* The variables of a run as the interpreter creates them.
Fresh ==
    /\ fileExists = TRUE
    /\ catalogRead = FALSE
    /\ error = ""
    /\ movies = <<>>
    /\ num_movies = 0
    /\ ui = 0
    /\ sample_movies = <<>>
    /\ records = <<>>
    /\ drawn = <<>>
    /\ df = <<>>
    /\ genre_count = << >>
    /\ tie_rule = NoRule
    /\ user_behaviour = << >>
    /\ selected_user = NoUser
    /\ fav_genre = NoGenre
    /\ recommendations = <<>>
    /\ movie_input = <<>>
    /\ main_genre = NoGenre
    /\ query = <<>>
    /\ similar = <<>>
    /\ replayed = FALSE

Init ==
    /\ variant \in Variants
    /\ file \in Files
    /\ tape = <<>>
    /\ rng = Unseeded
    /\ firstTable = << >>
    /\ pc = "start"
    /\ Fresh

(***************************************************************************)
(* The script, section by section                                          *)
(***************************************************************************)
\* the existence check with st.stop() left out: the error is shown and the
\* script goes on
CheckFileNoStop(exists) ==
    /\ pc = "start"
    /\ fileExists' = exists
    /\ pc' = "load"
    /\ error' = IF exists THEN error ELSE "not found"
    /\ UNCHANGED <<process, catalogRead, movies, num_movies, ui, sample_movies,
                   records, drawn, df, genre_count, selected_user, fav_genre,
                   recommendations, movie_input, main_genre, query, similar, replayed>>
    /\ UNCHANGED <<tie_rule, user_behaviour>>

\* LOAD DATA, the existence check: st.error and st.stop when the file is absent.
CheckFile(exists) ==
    /\ pc = "start"
    /\ fileExists' = exists
    /\ IF exists
       THEN /\ pc' = "load"
            /\ error' = error
       ELSE /\ pc' = "stopped"
            /\ error' = "not found"
    /\ UNCHANGED <<process, catalogRead, movies, num_movies, ui, sample_movies,
                   records, drawn, df, genre_count, selected_user, fav_genre,
                   recommendations, movie_input, main_genre, query, similar, replayed>>
    /\ UNCHANGED <<tie_rule, user_behaviour>>

\* LOAD DATA, the rest: read_csv, the renaming, the column selection, dropna.
LoadCatalog ==
    /\ pc = "load"
    /\ catalogRead' = TRUE
    /\ LET out == LoadOutcome(variant, file.header)
       IN  CASE out = "ok" ->
                  /\ movies' = Cleaned(variant, file.rows)
                  /\ pc' = "slider"
                  /\ error' = error
             [] out = "stop" ->
                  /\ movies' = movies
                  /\ pc' = "stopped"
                  /\ error' = "missing columns"
             [] OTHER ->
                  /\ movies' = movies
                  /\ pc' = "failed"
                  /\ error' = error
    /\ UNCHANGED <<process, fileExists, num_movies, ui, sample_movies,
                   records, drawn, df, genre_count, selected_user, fav_genre,
                   recommendations, movie_input, main_genre, query, similar, replayed>>
    /\ UNCHANGED <<tie_rule, user_behaviour>>

\* the seeding left out: the generator stays where it is
SeedKept(g) == g

\* np.random.seed(s): the global generator restarts on the stream of s.
Seed(g) == [seeded |-> TRUE, pos |-> 0]

\* The upper end of the slider.
SliderTop(v, rows) ==
    CASE v = "black3" -> Len(rows)
      [] v = "black4" -> IF SliderMax < Len(rows) THEN SliderMax ELSE Len(rows)
      [] OTHER -> SliderMax

\* The slider's default value: 250, inside the range, in black.py and
\* black2.py; 500, the upper end of the scripts' range, in the other two.
SliderDefault(v) == IF v \in {"black", "black2"} THEN SliderMin ELSE SliderMax

\* SIDEBAR: the slider, the subsampling of the catalog, the seeding.  A slider
\* whose default lies outside its range raises.
Subsample ==
    /\ pc = "slider"
    /\ LET top == SliderTop(variant, movies)
       IN  IF SliderDefault(variant) > top \/ SliderMin > top
           THEN /\ pc' = "failed"
                /\ UNCHANGED <<movies, num_movies, ui, rng, tape>>
           ELSE \E n \in SliderMin..top :
                /\ num_movies' = n
                /\ pc' = "loop"
                /\ ui' = 1
                /\ rng' = Seed(rng)
                /\ IF variant = "black3"
                   THEN \E dr \in Draws(FreshState, tape) :
                            /\ movies' = Sample(movies, n, dr.word.s)
                            /\ tape' = dr.tape
                   ELSE /\ movies' = HeadN(movies, n)
                        /\ tape' = tape
    /\ UNCHANGED <<variant, file, firstTable, fileExists, catalogRead, error,
                   sample_movies, records, drawn, df, genre_count, selected_user,
                   fav_genre, recommendations, movie_input, main_genre, query,
                   similar, replayed>>
    /\ UNCHANGED <<tie_rule, user_behaviour>>

\* the preference filter left out: every row of the catalog
all_movies(v, rows, u) == rows

\* The rows of the catalog that match the user's preferred genres.
preferred_movies(v, rows, u) ==
    SelectSeq(rows, LAMBDA r : ContainsAny(r.Genre, user_preferences(v)[u]))

\* Where the loop goes once the rows of user number i are exhausted.
AfterUser(i) ==
    /\ ui' = i + 1
    /\ pc' = IF i = NumUsers THEN "frame" ELSE "loop"

\* The head of the outer loop: the rows the current user is given.  Sampling
\* more rows than there are raises ValueError.
SampleUser ==
    /\ pc = "loop"
    /\ sample_movies = <<>>
    /\ LET u == users[ui]
           pool == IF variant \in {"black", "black2"}
                   THEN movies
                   ELSE preferred_movies(variant, movies, u)
       IN  CASE variant \in {"black", "black2"} ->
                  IF Len(pool) < SampleSize
                  THEN /\ pc' = "failed"
                       /\ UNCHANGED <<ui, sample_movies, rng, tape>>
                  ELSE \E dr \in Draws(rng, tape) :
                         /\ sample_movies' = Sample(pool, SampleSize, dr.word.s)
                         /\ tape' = dr.tape
                         /\ rng' = Advance(rng)
                         /\ UNCHANGED <<pc, ui>>
             [] variant = "black3" ->
                  IF Len(pool) < SampleSize
                  THEN /\ pc' = "failed"
                       /\ UNCHANGED <<ui, sample_movies, rng, tape>>
                  ELSE \E dr \in Draws(FreshState, tape) :
                         /\ sample_movies' = Sample(pool, SampleSize, dr.word.s)
                         /\ tape' = dr.tape
                         /\ rng' = rng
                         /\ UNCHANGED <<pc, ui>>
             [] OTHER ->
                  LET rows == HeadN(pool, num_movies \div NumUsers)
                  IN  /\ sample_movies' = rows
                      /\ UNCHANGED <<rng, tape>>
                      /\ IF rows = <<>> THEN AfterUser(ui)
                         ELSE UNCHANGED <<pc, ui>>
    /\ UNCHANGED <<variant, file, firstTable, fileExists, catalogRead, error, movies,
                   num_movies, records, drawn, df, genre_count, selected_user,
                   fav_genre, recommendations, movie_input, main_genre, query,
                   similar, replayed>>
    /\ UNCHANGED <<tie_rule, user_behaviour>>

\* The rating of one record, from the row's base rating and the word read.
\* black.py and black2.py clip later, on the whole column.
Rating(v, base, word) ==
    CASE v \in {"black", "black2"} -> Round1(Normal(base, Sigma(v), word.z))
      [] v = "black3" ->
            Clip(Round1(base + Normal(0, Sigma(v), word.z)), 1000, 5000)
      [] OTHER -> 1000 * RandInt(4, 6, word.q)

\* randint(60, 180)
WatchTime(word) == RandInt(60, 180, word.w)

\* The body of the inner loop: one record appended.  In black.py a rating
\* column holding a non-numeric cell is a column of strings, and normal() raises.
AppendRecord ==
    /\ pc = "loop"
    /\ sample_movies # <<>>
    /\ LET row == Head(sample_movies)
       IN  IF variant = "black" /\ \E i \in 1..Len(file.rows) :
                                        file.rows[i].BaseRating.kind = "text"
           THEN /\ pc' = "failed"
                /\ UNCHANGED <<ui, sample_movies, records, drawn, rng, tape>>
           ELSE \E dr \in Draws(rng, tape) :
                  /\ records' = Append(records,
                        [UserID |-> users[ui],
                         MovieID |-> row.MovieID,
                         MovieName |-> row.MovieName,
                         Genre |-> row.Genre,
                         UserRating |-> Rating(variant, row.BaseRating.val, dr.word),
                         WatchTime |-> WatchTime(dr.word),
                         WatchDate |-> Choice(dates, dr.word.d)])
                  /\ drawn' = Append(drawn, dr.word)
                  /\ tape' = dr.tape
                  /\ rng' = Advance(rng)
                  /\ sample_movies' = Tail(sample_movies)
                  /\ IF Tail(sample_movies) = <<>> THEN AfterUser(ui)
                     ELSE UNCHANGED <<pc, ui>>
    /\ UNCHANGED <<variant, file, firstTable, fileExists, catalogRead, error, movies,
                   num_movies, df, genre_count, selected_user, fav_genre,
                   recommendations, movie_input, main_genre, query, similar, replayed>>
    /\ UNCHANGED <<tie_rule, user_behaviour>>

\* pd.DataFrame(records), then the column-wise clip of black.py and black2.py
\* and the GenreList column of black4.py.
Frame(v, recs) ==
    CASE v \in {"black", "black2"} ->
            [i \in 1..Len(recs) |->
                [recs[i] EXCEPT !.UserRating = Clip(@, 1000, 5000)]]
      [] v = "black4" ->
            [i \in 1..Len(recs) |->
                [UserID |-> recs[i].UserID,
                 MovieID |-> recs[i].MovieID,
                 MovieName |-> recs[i].MovieName,
                 Genre |-> recs[i].Genre,
                 UserRating |-> recs[i].UserRating,
                 WatchTime |-> recs[i].WatchTime,
                 WatchDate |-> recs[i].WatchDate,
                 GenreList |-> GenreList(v, recs[i].Genre)]]
      [] OTHER -> recs

\* the genre normalization written back into the catalog
BuildFrameInPlace ==
    /\ pc = "frame"
    /\ df' = Frame(variant, records)
    /\ movies' = [i \in 1..Len(movies) |->
                    [movies[i] EXCEPT !.Genre = Head(GenreList("black4", @))]]
    /\ replayed' = (num_movies \in DOMAIN firstTable)
    /\ firstTable' = IF num_movies \in DOMAIN firstTable
                     THEN firstTable
                     ELSE firstTable @@ (num_movies :> df')
    /\ pc' = "aggregate"
    /\ UNCHANGED <<variant, file, tape, rng, fileExists, catalogRead, error,
                   num_movies, ui, sample_movies, records, drawn, genre_count,
                   selected_user, fav_genre, recommendations, movie_input,
                   main_genre, query, similar>>
    /\ UNCHANGED <<tie_rule, user_behaviour>>

BuildFrame ==
    /\ pc = "frame"
    /\ df' = Frame(variant, records)
    /\ replayed' = (num_movies \in DOMAIN firstTable)
    /\ firstTable' = IF num_movies \in DOMAIN firstTable
                     THEN firstTable
                     ELSE firstTable @@ (num_movies :> df')
    /\ pc' = "aggregate"
    /\ UNCHANGED <<variant, file, tape, rng, fileExists, catalogRead, error, movies,
                   num_movies, ui, sample_movies, records, drawn, genre_count,
                   selected_user, fav_genre, recommendations, movie_input,
                   main_genre, query, similar>>
    /\ UNCHANGED <<tie_rule, user_behaviour>>

\* The rows of table t that belong to user u.
RowsOf(t, u) == SelectSeq(t, LAMBDA r : r.UserID = u)

IdsOf(t) == {t[i].MovieID : i \in 1..Len(t)}

RatingSum(t, S) ==
    LET RECURSIVE Sum(_)
        Sum(i) == IF i = 0 THEN 0
                  ELSE Sum(i - 1) + (IF i \in S THEN t[i].UserRating ELSE 0)
    IN  Sum(Len(t))

\* The sum, the count and the catalog items of the rows S of table t: the
\* mean rating of a group is the quotient of the first two.
Group(t, S) ==
    [Sum |-> RatingSum(t, S), Count |-> Cardinality(S),
     MovieIDs |-> {t[i].MovieID : i \in S}]

\* groupby("Genre")["UserRating"].mean()
MeanByGenre(t) ==
    [k \in {t[i].Genre : i \in 1..Len(t)} |->
        Group(t, {i \in 1..Len(t) : t[i].Genre = k})]

\* groupby("MovieName")["UserRating"].mean()
MeanByName(t) ==
    [k \in {t[i].MovieName : i \in 1..Len(t)} |->
        Group(t, {i \in 1..Len(t) : t[i].MovieName = k})]

\* a.mean >= b.mean
MeanGeq(a, b) == a.Sum * b.Count >= b.Sum * a.Count

\* a.BaseRating >= b.BaseRating
BaseGeq(a, b) == a.BaseRating.val >= b.BaseRating.val

\* sort_values(ascending=False) of the groups S by mean: the orders that are
\* non-increasing; the order among equals is the sort's choice.
RECURSIVE SortedByMean(_)
SortedByMean(S) ==
    IF S = {} THEN {<<>>}
    ELSE UNION {{<<x>> \o p : p \in SortedByMean(S \ {x})} :
                    x \in {y \in S : \A z \in S : MeanGeq(y, z)}}

\* sort_values("BaseRating", ascending=False) of the catalog rows S
RECURSIVE SortedByBase(_)
SortedByBase(S) ==
    IF S = {} THEN {<<>>}
    ELSE UNION {{<<x>> \o p : p \in SortedByBase(S \ {x})} :
                    x \in {y \in S : \A z \in S : BaseGeq(y, z)}}

\* The favorite genre the recommendation is built on.
FavGenres(v, rule, user_data) ==
    IF v \in {"black", "black2"}
    THEN LET m == MeanByGenre(user_data)
         IN  {g \in DOMAIN m : \A h \in DOMAIN m : MeanGeq(m[g], m[h])}
    ELSE {IdxMax(rule, Exploded(v, user_data))}

\* The user-based recommendation lists the script can show for the favorite
\* genre fav and the watched set.
UserRecs(v, fav, watched) ==
    CASE v \in {"black", "black2"} ->
            LET cand == SelectSeq(df, LAMBDA r :
                            r.Genre = fav /\ r.MovieID \notin watched)
                m == MeanByName(cand)
                groups == {[MovieName |-> k, Sum |-> m[k].Sum, Count |-> m[k].Count,
                            MovieIDs |-> m[k].MovieIDs] : k \in DOMAIN m}
            IN  {HeadN(p, 7) : p \in SortedByMean(groups)}
      [] v = "black3" ->
            {HeadN(SelectSeq(movies, LAMBDA r :
                        Contains(r.Genre, fav) /\ r.MovieID \notin watched), 7)}
      [] OTHER ->
            {HeadN(p, 7) :
                p \in SortedByBase({r \in Range(movies) : Contains(r.Genre, fav)})}

\* The KPI row, GENRE ANALYSIS and the USER BEHAVIOUR table: int() of the mean
\* watch time of an empty table raises.
Aggregate ==
    /\ pc = "aggregate"
    /\ IF df = <<>>
       THEN /\ pc' = "failed"
            /\ UNCHANGED <<genre_count, tie_rule, user_behaviour>>
       ELSE /\ pc' = "recommend"
            /\ genre_count' = ValueCounts(Exploded(variant, df))
            /\ \E rule \in TieRules :
                 /\ tie_rule' = rule
                 /\ user_behaviour' =
                        [u \in {df[i].UserID : i \in 1..Len(df)} |->
                            FavoriteGenre(variant, rule, RowsOf(df, u))]
    /\ UNCHANGED <<process, fileExists, catalogRead, error, movies, num_movies, ui,
                   sample_movies, records, drawn, df, selected_user, fav_genre,
                   recommendations, movie_input, main_genre, query, similar, replayed>>

\* The options of the "Select User" selectbox.
UserOptions(v) ==
    IF v = "black4" THEN {df[i].UserID : i \in 1..Len(df)} ELSE Range(users)

\* USER-BASED RECOMMENDATION
Recommend ==
    /\ pc = "recommend"
    /\ \E u \in UserOptions(variant) :
         LET user_data == RowsOf(df, u)
             watched == IdsOf(user_data)
         IN  /\ selected_user' = u
             /\ \E g \in FavGenres(variant, tie_rule, user_data) :
                  /\ fav_genre' = g
                  /\ recommendations' \in UserRecs(variant, g, watched)
    /\ pc' = IF variant \in {"black3", "black4"} THEN "movie" ELSE "done"
    /\ UNCHANGED <<process, fileExists, catalogRead, error, movies, num_movies, ui,
                   sample_movies, records, drawn, df, genre_count, movie_input,
                   main_genre, query, similar, replayed>>
    /\ UNCHANGED <<tie_rule, user_behaviour>>

\* What is typed in the text input: nothing, or one of these.
MovieInputs == {<<>>, <<"h","e">>, <<"h","e","r">>, <<"r","a","n">>, <<"x">>}

\* the similar movies with the query movie itself not excluded
SimilarWithQuery(v, movie) ==
    LET main == PrimaryGenre(v, movie.Genre)
    IN  {HeadN(p, SimilarMax) :
            p \in SortedByBase(
                    {r \in Range(movies) :
                        /\ Contains(r.Genre, main)
                        /\ r.BaseRating.val >= movie.BaseRating.val - 500})}

\* The similar movies of the query movie.
Similar(v, movie) ==
    LET main == PrimaryGenre(v, movie.Genre)
    IN  {HeadN(p, SimilarMax) :
            p \in SortedByBase(
                    {r \in Range(movies) :
                        /\ Contains(r.Genre, main)
                        /\ r.BaseRating.val >= movie.BaseRating.val - 500
                        /\ r.MovieID # movie.MovieID})}

\* MOVIE-BASED RECOMMENDATION (black3.py and black4.py)
MovieRecommend ==
    /\ pc = "movie"
    /\ \E inp \in MovieInputs :
         /\ movie_input' = inp
         /\ LET match == SelectSeq(movies, LAMBDA r : Contains(r.MovieName, inp))
            IN  CASE inp = <<>> ->
                       UNCHANGED <<error, query, main_genre, similar>>
                  [] inp # <<>> /\ match = <<>> ->
                       /\ error' = "Movie not found"
                       /\ UNCHANGED <<query, main_genre, similar>>
                  [] OTHER ->
                       /\ query' = <<match[1]>>
                       /\ main_genre' = PrimaryGenre(variant, match[1].Genre)
                       /\ similar' \in Similar(variant, match[1])
                       /\ error' = error
    /\ pc' = "done"
    /\ UNCHANGED <<process, fileExists, catalogRead, movies, num_movies, ui,
                   sample_movies, records, drawn, df, genre_count, selected_user,
                   fav_genre, recommendations, replayed>>
    /\ UNCHANGED <<tie_rule, user_behaviour>>

\* A widget interaction: the script is run again from its first line, with
\* new variables; the process, and with it the generator, stays.
Rerun ==
    /\ pc # "start"
    /\ pc' = "start"
    /\ fileExists' = TRUE
    /\ catalogRead' = FALSE
    /\ error' = ""
    /\ movies' = <<>>
    /\ num_movies' = 0
    /\ ui' = 0
    /\ sample_movies' = <<>>
    /\ records' = <<>>
    /\ drawn' = <<>>
    /\ df' = <<>>
    /\ genre_count' = << >>
    /\ tie_rule' = NoRule
    /\ user_behaviour' = << >>
    /\ selected_user' = NoUser
    /\ fav_genre' = NoGenre
    /\ recommendations' = <<>>
    /\ movie_input' = <<>>
    /\ main_genre' = NoGenre
    /\ query' = <<>>
    /\ similar' = <<>>
    /\ replayed' = FALSE
    /\ UNCHANGED process

Next ==
    \/ \E exists \in BOOLEAN : CheckFile(exists)
    \/ LoadCatalog
    \/ Subsample
    \/ SampleUser
    \/ AppendRecord
    \/ BuildFrame
    \/ Aggregate
    \/ Recommend
    \/ MovieRecommend
    \/ Rerun

Spec == Init /\ [][Next]_vars

(***************************************************************************)
(* Properties                                                              *)
(***************************************************************************)
\* The interaction table of this run has been built.
Built == pc \in {"aggregate", "recommend", "movie", "done"}

\* The user-based recommendation of this run has been made.
Recommended == pc \in {"movie", "done"} /\ selected_user # NoUser

\* The base rating of the catalog item with identifier id.
BaseOf(id) == (CHOOSE r \in Range(movies) : r.MovieID = id).BaseRating.val

\* C1: every record of the interaction table has a rating between 1 and 5.
C1_RatingInRange ==
    \A i \in 1..Len(df) : df[i].UserRating >= 1000 /\ df[i].UserRating <= 5000

\* C1 witness: a table was built in which one rating was raised to 1 and
\* another was lowered to 5 by the column-wise clip.
C1_Witness ==
    /\ Built
    /\ variant = "black"
    /\ \E i, j \in 1..Len(df) :
         /\ records[i].UserRating < 1000 /\ df[i].UserRating = 1000
         /\ records[j].UserRating > 5000 /\ df[j].UserRating = 5000

\* The catalog items one entry of the recommendation list stands for.
RecIds(e) == IF variant \in {"black", "black2"} THEN e.MovieIDs ELSE {e.MovieID}

\* C2 (as claimed): the user-based recommendation holds no catalog item whose
\* MovieID occurs in the selected user's own interaction records.
C2_NoWatchedRecommended ==
    Recommended =>
        \A k \in 1..Len(recommendations) :
            RecIds(recommendations[k]) \cap IdsOf(RowsOf(df, selected_user)) = {}

\* Splitting a genre string into its individual genres: at the commas, blanks
\* around a genre dropped.
IndividualGenres(g) == StripAll(Split(g, Comma))

\* The (interaction record, genre) pairs of the table whose genre is g.
GenrePairs(g) ==
    {<<i, k>> \in (1..Len(df)) \X (1..8) :
        /\ k <= Len(IndividualGenres(df[i].Genre))
        /\ IndividualGenres(df[i].Genre)[k] = g}

\* C3 (as claimed): the count reported for a genre is the number of
\* (interaction record, genre) pairs with that genre after splitting the
\* multi-genre strings.
C3_GenreCountsArePairs ==
    pc \in {"recommend", "movie", "done"} =>
        \A g \in (DOMAIN genre_count) \cup
                    UNION {Range(IndividualGenres(df[i].Genre)) : i \in 1..Len(df)} :
            (IF g \in DOMAIN genre_count THEN genre_count[g] ELSE 0)
                = Cardinality(GenrePairs(g))

\* C4: a run that builds its table for a slider value for which an earlier
\* run of the process built one, builds the same table.
C4_SameTable ==
    Built => /\ num_movies \in DOMAIN firstTable
             /\ firstTable[num_movies] = df

\* C4 witness: a second run for the same slider value has built its table,
\* after a run for another slider value.
C4_Witness ==
    /\ pc = "done"
    /\ replayed
    /\ df # <<>>
    /\ Cardinality(DOMAIN firstTable) >= 2

\* The rating the recommendation list is ordered by.
RecGeq(a, b) ==
    IF variant \in {"black", "black2"} THEN MeanGeq(a, b) ELSE BaseGeq(a, b)

\* C5 (as claimed): the user-based recommendation list is sorted by rating,
\* highest first.
C5_RecommendationsSorted ==
    Recommended =>
        \A k \in 1..(Len(recommendations) - 1) :
            RecGeq(recommendations[k], recommendations[k + 1])

\* C6 (as claimed): the primary genre the movie-based recommendation extracts
\* from the query movie's genre string is the first genre of the list the
\* genre counts and the favorite genre are computed from.
C6_SameSplitEverywhere ==
    query # <<>> => main_genre = Head(GenreList(variant, query[1].Genre))

\* C7: a run that found the catalog file absent has stopped with the error,
\* has not read the catalog, and has synthesized and computed nothing.
C7_MissingFileStops ==
    ~fileExists =>
        /\ pc = "stopped"
        /\ error = "not found"
        /\ ~catalogRead
        /\ movies = <<>> /\ records = <<>> /\ df = <<>>
        /\ genre_count = << >>
        /\ fav_genre = NoGenre /\ recommendations = <<>>
        /\ query = <<>> /\ similar = <<>>

\* C7 witness: a run stopped on the absent file in a process whose earlier
\* run had built a table.
C7_Witness ==
    /\ ~fileExists
    /\ pc = "stopped"
    /\ firstTable # << >>

\* C8: from the subsampling on, no step of a run changes the catalog.
C8_CatalogFrozen ==
    [][(pc \in {"loop", "frame", "aggregate", "recommend", "movie"} /\ pc' # "start")
            => movies' = movies]_vars

\* C8 witness: a run ended with both recommendations made.
C8_Witness ==
    /\ pc = "done"
    /\ movies # <<>>
    /\ recommendations # <<>>
    /\ similar # <<>>

\* r is x rounded to one decimal and then clamped to [1, 5].
IsRoundedClamped(r, x) ==
    \E t \in (x - 50)..(x + 50) :
        /\ t % 100 = 0
        /\ r = IF t < 1000 THEN 1000 ELSE IF t > 5000 THEN 5000 ELSE t

\* The noise terms the generator words of the model give.
NoiseTerms == {Normal(0, sd, x.z) : sd \in {400, 500}, x \in RawWords}

\* C9 (as claimed): in every variant each rating is the base rating of its
\* catalog item plus a noise term, rounded to one decimal and clamped to [1,5].
C9_RatingFromBase ==
    Built =>
        \A i \in 1..Len(df) :
            \E n \in NoiseTerms :
                IsRoundedClamped(df[i].UserRating, BaseOf(df[i].MovieID) + n)

\* C9 (amended): in black.py, black2.py and black3.py each rating is the base
\* rating of its catalog item plus the normal noise drawn for the record,
\* rounded to one decimal and clamped to [1,5]; in black4.py it is 4 or 5.
C9_RatingFromBaseOrFourFive ==
    Built =>
        \A i \in 1..Len(df) :
            IF variant = "black4"
            THEN df[i].UserRating \in {4000, 5000}
            ELSE IsRoundedClamped(df[i].UserRating,
                    BaseOf(df[i].MovieID) + (Sigma(variant) * drawn[i].z) \div 100)

\* C9 witness: a table with a rating that the rounding moved and that lies
\* inside [1,5], and a rating that the clamp moved.
C9_Witness ==
    /\ Built
    /\ variant # "black4"
    /\ \E i, j \in 1..Len(df) :
         /\ (BaseOf(df[i].MovieID) + (Sigma(variant) * drawn[i].z) \div 100) % 100 # 0
         /\ df[i].UserRating \notin {1000, 5000}
         /\ BaseOf(df[j].MovieID) + (Sigma(variant) * drawn[j].z) \div 100 > 5050
         /\ df[j].UserRating = 5000

\* User u has a record with watch duration t.
Watched(u, t) == \E i \in 1..Len(df) : df[i].UserID = u /\ df[i].WatchTime = t

\* C10 (as claimed): the range of the watch durations is specific to the user
\* and not one range shared by all users; so the users cannot all have
\* durations at both ends of the range the durations are drawn from.
C10_UserSpecificRange ==
    Built => ~(\A u \in Range(users) : Watched(u, 60) /\ Watched(u, 179))

\* C10 (amended): every watch duration, whatever its user, lies in the one
\* range 60..179.
C10_SharedRange ==
    \A i \in 1..Len(df) : df[i].WatchTime \in 60..179

\* C10 witness: two users have records with the longest duration, 179.
C10_Witness ==
    /\ Built
    /\ \E i, j \in 1..Len(df) :
         /\ df[i].UserID # df[j].UserID
         /\ df[i].WatchTime = 179 /\ df[j].WatchTime = 179

\* The number of days of month m of year y in the Gregorian calendar.
DaysInMonth(y, m) ==
    IF m = 2
    THEN (IF y % 4 = 0 /\ (y % 100 # 0 \/ y % 400 = 0) THEN 29 ELSE 28)
    ELSE IF m \in {4, 6, 9, 11} THEN 30 ELSE 31

\* d is a calendar day from 2024-01-01 to 2024-06-30.
InWindow(d) ==
    /\ d.year = 2024
    /\ d.month \in 1..6
    /\ d.day \in 1..DaysInMonth(2024, d.month)

\* C11: the watch date of every interaction record, in the list the loop
\* fills and in the table built from it, is a calendar day from 2024-01-01 to
\* 2024-06-30.
C11_WatchDateInWindow ==
    /\ \A i \in 1..Len(records) : InWindow(records[i].WatchDate)
    /\ \A i \in 1..Len(df) : InWindow(df[i].WatchDate)

\* C11 witness: a table with a record dated on the first day of the window
\* and a record dated on its last day.
C11_Witness ==
    /\ Built
    /\ \E i, j \in 1..Len(df) :
         /\ df[i].WatchDate = [year |-> 2024, month |-> 1, day |-> 1]
         /\ df[j].WatchDate = [year |-> 2024, month |-> 6, day |-> 30]

\* The catalog row with identifier id.
CatalogRow(id) == CHOOSE r \in Range(movies) : r.MovieID = id

\* String s contains string p when letter case is ignored.
HasNoCase(s, p) ==
    LET ls == Lower(s)
        lp == Lower(p)
    IN  \E i \in 1..(Len(ls) - Len(lp) + 1) : SubSeq(ls, i, i + Len(lp) - 1) = lp

\* The genre string of the catalog item of record r contains, letter case
\* ignored, one of the genres the preference profile lists for r's user.
InPreferredGenres(r) ==
    LET prefs == user_preferences(variant)[r.UserID]
    IN  \E k \in 1..Len(prefs) : HasNoCase(CatalogRow(r.MovieID).Genre, prefs[k])

\* C12: in black3.py and black4.py every interaction record of a user refers
\* to a catalog item whose genre string contains, case-insensitively, one of
\* the user's preferred genres.
C12_OnlyPreferredGenres ==
    variant \in {"black3", "black4"} =>
        /\ \A i \in 1..Len(records) : InPreferredGenres(records[i])
        /\ \A i \in 1..Len(df) : InPreferredGenres(df[i])

\* C12 witness: a table in which a user has a record whose genre string
\* matches the user's preferred genre only when letter case is ignored, built
\* from a catalog that holds a row outside that user's preferred genres.
C12_Witness ==
    /\ Built
    /\ variant \in {"black3", "black4"}
    /\ \E i \in 1..Len(df) :
         LET prefs == user_preferences(variant)[df[i].UserID]
         IN  /\ \A k \in 1..Len(prefs) : FirstMatch(df[i].Genre, prefs[k]) = 0
             /\ \E r \in Range(movies) :
                    \A k \in 1..Len(prefs) : ~HasNoCase(r.Genre, prefs[k])

\* The number of interaction records of user u in the table.
RecordCount(u) == Len(RowsOf(df, u))

\* C13 (as claimed): in black4.py every user has exactly
\* floor(num_movies / number of users) interaction records.
C13_EqualShare ==
    (variant = "black4" /\ Built) =>
        \A u \in Range(users) : RecordCount(u) = num_movies \div NumUsers

\* The positions of the catalog rows whose title contains the typed text.
TitleHits == {i \in 1..Len(movies) : HasNoCase(movies[i].MovieName, movie_input)}

\* The first of the catalog rows whose title contains the typed text.
FirstHit == movies[CHOOSE i \in TitleHits : \A j \in TitleHits : i <= j]

\* The first genre of a genre string.
FirstGenre(g) == Strip(Head(Split(g, Comma)))

\* Catalog row r is eligible as a similar movie of the query movie q.
Eligible(r, q) ==
    /\ HasNoCase(r.Genre, FirstGenre(q.Genre))
    /\ r.BaseRating.val >= q.BaseRating.val - 500
    /\ r.MovieID # q.MovieID

\* C14: in black3.py and black4.py, once a text was typed into the movie
\* input: when it matches a title, the query movie is the first matching
\* catalog row and the similar movies are at most SimilarMax eligible catalog
\* rows in non-increasing BaseRating order; when it matches none, the error
\* is shown and there is neither a query movie nor a similar list.
C14_MovieBased ==
    (variant \in {"black3", "black4"} /\ pc = "done" /\ movie_input # <<>>) =>
        IF TitleHits = {}
        THEN /\ error = "Movie not found"
             /\ query = <<>>
             /\ similar = <<>>
        ELSE /\ query = <<FirstHit>>
             /\ error = ""
             /\ Len(similar) <= SimilarMax
             /\ \A k \in 1..Len(similar) :
                    /\ similar[k] \in Range(movies)
                    /\ Eligible(similar[k], FirstHit)
             /\ \A k \in 1..(Len(similar) - 1) :
                    similar[k].BaseRating.val >= similar[k + 1].BaseRating.val

\* C14 witness: the typed text matches a title in another letter case, the
\* similar list is full while more rows were eligible, and a row of the query
\* movie's genre was left out for its rating.
C14_Witness ==
    /\ pc = "done"
    /\ query # <<>>
    /\ FirstMatch(query[1].MovieName, movie_input) = 0
    /\ Len(similar) = SimilarMax
    /\ Cardinality({r \in Range(movies) : Eligible(r, query[1])}) > SimilarMax
    /\ \E r \in Range(movies) :
         /\ HasNoCase(r.Genre, FirstGenre(query[1].Genre))
         /\ r.BaseRating.val < query[1].BaseRating.val - 500

\* A run in which the typed text matched no title.
C14_NotFound ==
    /\ pc = "done"
    /\ movie_input # <<>>
    /\ TitleHits = {}
    /\ error = "Movie not found"

\* A run in which the typed text matched several titles.
C14_SeveralHits ==
    /\ pc = "done"
    /\ query # <<>>
    /\ Cardinality(TitleHits) >= 2

\* C15 (as claimed): the favorite genre the recommendation of the selected
\* user is built on is the FavoriteGenre the user-behaviour table of the same
\* run reports for that user.
C15_SameFavoriteGenre ==
    Recommended => fav_genre = user_behaviour[selected_user]

\* The two favorite genres agree in black3.py and black4.py.
C15_SameWhereCounted ==
    (Recommended /\ variant \in {"black3", "black4"}) =>
        fav_genre = user_behaviour[selected_user]

\* The catalog rows the records of user u are sampled from.
EligibleRows(u) ==
    IF variant = "black3"
    THEN {r \in Range(movies) :
            \E k \in 1..Len(user_preferences(variant)[u]) :
                HasNoCase(r.Genre, user_preferences(variant)[u][k])}
    ELSE Range(movies)

\* The catalog is the one the synthesis loop samples from.
Subsampled == pc \notin {"start", "load", "slider"} /\ num_movies # 0

\* C16: in black.py, black2.py and black3.py a built interaction table holds
\* exactly SampleSize records for each user, no two of them for the same
\* catalog row; and when some user has fewer than SampleSize eligible catalog
\* rows the run never gets past the synthesis loop and builds no table.
C16_FullSampleOrFailure ==
    variant \in {"black", "black2", "black3"} =>
        /\ Built =>
              /\ Len(df) = SampleSize * NumUsers
              /\ \A u \in Range(users) :
                    /\ RecordCount(u) = SampleSize
                    /\ Cardinality(IdsOf(RowsOf(df, u))) = SampleSize
        /\ (Subsampled /\ \E u \in Range(users) :
                                Cardinality(EligibleRows(u)) < SampleSize) =>
              /\ pc \in {"loop", "failed"}
              /\ df = <<>>

\* C16 witness: a table built by black3.py where one user had more eligible
\* rows than records and another had exactly as many.
C16_Witness ==
    /\ Built
    /\ variant = "black3"
    /\ \A u \in Range(users) : RecordCount(u) = SampleSize
    /\ \E u \in Range(users) : Cardinality(EligibleRows(u)) > SampleSize
    /\ \E u \in Range(users) : Cardinality(EligibleRows(u)) = SampleSize

\* A run of black3.py that failed in the loop at the second user, after the
\* first user's records were appended.
C16_FailedAtSecondUser ==
    /\ pc = "failed"
    /\ variant = "black3"
    /\ Len(records) = SampleSize
    /\ Cardinality(EligibleRows(users[2])) < SampleSize

\* A run of black.py or black2.py that failed on a catalog of fewer than
\* SampleSize rows.
C16_FailedOnShortCatalog ==
    /\ pc = "failed"
    /\ variant \in {"black", "black2"}
    /\ Subsampled
    /\ Len(movies) < SampleSize

====
